---- MODULE Spec2Model ----
(***************************************************************************)
(* receiveTM.c: the telemetry demultiplexer loop of the MOSES ground       *)
(* station.  The model covers main() from the opening of the image buffer  *)
(* (line 203) to the return (line 409): the startup recovery of the XML    *)
(* catalog, the receive loop with its four branches, and the teardown.     *)
(* Bytes are their ASCII codes, files are byte sequences, and a FILE* is   *)
(* an index into the table of stdio streams.                               *)
(***************************************************************************)
EXTENDS Integers, Sequences, FiniteSets, TLC

\* ------------------------------------------------------------------ bounds
MaxPackets == 4
MaxClock == 1

\* ------------------------------------------------------- program constants
IMAGE_TERM_LEN == 16
CATALOG_TERM_LEN == 14
HEADER_LEN == 10
SEEK_BACK == 11
EINTR == 4
ARCHIVE_FILE_SIZE == 57

\* "<?xml version=\"1.0\" encoding=\"ASCII\" standalone=\"yes\"?>\n"
XmlDecl ==
  <<60, 63, 120, 109, 108, 32, 118, 101, 114, 115, 105, 111, 110, 61, 34, 49,
    46, 48, 34, 32, 101, 110, 99, 111, 100, 105, 110, 103, 61, 34, 65, 83, 67,
    73, 73, 34, 32, 115, 116, 97, 110, 100, 97, 108, 111, 110, 101, 61, 34,
    121, 101, 115, 34, 63, 62, 10>>
\* "<CATALOG>\n\n"
CatalogOpen == <<60, 67, 65, 84, 65, 76, 79, 71, 62, 10, 10>>
\* "</CATALOG>\n"
CatalogClose == <<60, 47, 67, 65, 84, 65, 76, 79, 71, 62, 10>>
\* "<ROEIMAGE>"
ROEIMAGE == <<60, 82, 79, 69, 73, 77, 65, 71, 69, 62>>
\* "\n"
Newline == <<10>>

\* "/media/moses/Data/TM_data/"
DataDir ==
  <<47, 109, 101, 100, 105, 97, 47, 109, 111, 115, 101, 115, 47, 68, 97, 116,
    97, 47, 84, 77, 95, 100, 97, 116, 97, 47>>
\* "xml_archive/"
XmlArchiveDir == <<120, 109, 108, 95, 97, 114, 99, 104, 105, 118, 101, 47>>
\* "imageindex_"
ArchivePrefix == <<105, 109, 97, 103, 101, 105, 110, 100, 101, 120, 95>>
\* ".xml"
XmlExt == <<46, 120, 109, 108>>

\* A path is the directory it lies in and the file's name in that directory.
\* "/media/moses/Data/TM_data/image_buf.tmp"
image_path ==
  [dir |-> "data",
   name |-> <<105, 109, 97, 103, 101, 95, 98, 117, 102, 46, 116, 109, 112>>]
\* "/media/moses/Data/TM_data/imageindex.xml"
current_xml ==
  [dir |-> "data",
   name |-> <<105, 109, 97, 103, 101, 105, 110, 100, 101, 120, 46, 120, 109,
              108>>]

\* ----------------------------------------------------------- byte strings
\* memset(buf, 0, BUFSIZ) followed by read(): the byte at offset i (from 1)
\* of the receive buffer that holds packet p.
BufAt(p, i) == IF i <= Len(p) THEN p[i] ELSE 0

\* The C string that starts at buf: the bytes before the first NUL.
RECURSIVE CStringFrom(_, _)
CStringFrom(p, i) ==
  IF BufAt(p, i) = 0 THEN <<>> ELSE <<p[i]>> \o CStringFrom(p, i + 1)

CString(p) == CStringFrom(p, 1)

\* strncpy(dst, buf, n): the bytes of the C string at buf, NUL-padded to n.
Strncpy(p, n) ==
  LET s == CString(p)
  IN  [i \in 1..n |-> IF i <= Len(s) THEN s[i] ELSE 0]

\* strncmp(a, b, n) == 0: equal up to n bytes or up to a common NUL.
RECURSIVE StrncmpEqFrom(_, _, _, _)
StrncmpEqFrom(a, b, n, i) ==
  IF i > n THEN TRUE
  ELSE IF BufAt(a, i) # BufAt(b, i) THEN FALSE
  ELSE IF BufAt(a, i) = 0 THEN TRUE
  ELSE StrncmpEqFrom(a, b, n, i + 1)

StrncmpEq(a, b, n) == StrncmpEqFrom(a, b, n, 1)

\* Overwrite-in-place write of d at byte offset p of c (the file grows when
\* the write runs past its end).
WriteAt(c, p, d) ==
  SubSeq(c, 1, p) \o d \o SubSeq(c, p + Len(d) + 1, Len(c))

\* ------------------------------------------------------------------ clock
TwoDigits(n) == <<48 + ((n \div 10) % 10), 48 + (n % 10)>>

\* localtime(): the clock counts seconds from 2015-03-12 00:00:00 local time.
Localtime(t) ==
  [tm_year |-> 115, tm_mon |-> 2, tm_mday |-> 12 + (t \div 86400),
   tm_hour |-> (t \div 3600) % 24, tm_min |-> (t \div 60) % 60,
   tm_sec |-> t % 60]

\* strftime(timestamp, 80, "%y%m%d%H%M%S", &ts)
Strftime(ts) ==
  TwoDigits(ts.tm_year % 100) \o TwoDigits(ts.tm_mon + 1) \o
  TwoDigits(ts.tm_mday) \o TwoDigits(ts.tm_hour) \o TwoDigits(ts.tm_min) \o
  TwoDigits(ts.tm_sec)

\* sprintf(archive_file, ".../xml_archive/imageindex_%s%s", timestamp, ".xml")
XmlArchivePath(t) ==
  [dir |-> "xml_archive",
   name |-> ArchivePrefix \o Strftime(Localtime(t)) \o XmlExt]

\* sprintf(archive_file, "/media/moses/Data/TM_data/%s", buf)
ImageArchivePath(p) == [dir |-> "data", name |-> CString(p)]

\* Number of characters sprintf stores for a path, without the final NUL.
PathLen(path) ==
  Len(DataDir) + (IF path.dir = "xml_archive" THEN Len(XmlArchiveDir) ELSE 0)
    + Len(path.name)

\* archive_file is malloc'ed with ARCHIVE_FILE_SIZE bytes.  A sprintf that
\* stores more is a heap overflow: undefined behaviour, which either goes
\* unnoticed (the bytes land in allocator slack) or ends the process (a
\* fortified sprintf, a hardened allocator).
SprintfOutcomes(path) ==
  IF PathLen(path) + 1 > ARCHIVE_FILE_SIZE THEN {"benign", "abort"}
  ELSE {"benign"}

\* ------------------------------------------------------------ file system
\* dir maps each existing path to its inode; inodes[i] is the content of
\* inode i on disk.  A world is the record of the three tables.

\* rename(old, new): the entry new is atomically replaced by old's inode.
\* It fails, changing nothing, when old does not exist or when new names a
\* directory (an empty file name names the data directory itself).
Rename(w, old, new) ==
  IF old \notin DOMAIN w.dir \/ new.name = <<>> \/ old = new THEN w
  ELSE [w EXCEPT !.dir =
          [q \in (DOMAIN w.dir \ {old}) \cup {new} |->
             IF q = new THEN w.dir[old] ELSE w.dir[q]]]

\* stat(path, &st) == 0
Stat(w, path) == path \in DOMAIN w.dir

\* ------------------------------------------------------------ stdio streams
\* A stream is [ino, pos, pend, open, name]: pend holds the bytes written to
\* the stream that the library has not yet transferred to the file, pos is
\* the file offset at which they will be stored, name is the path the stream
\* was opened on.

\* fflush(h)
Fflush(w, h) ==
  LET s == w.streams[h]
  IN  IF ~s.open THEN w
      ELSE [w EXCEPT !.inodes[s.ino] = WriteAt(@, s.pos, s.pend),
                     !.streams[h].pos = s.pos + Len(s.pend),
                     !.streams[h].pend = <<>>]

\* fclose(h)
Fclose(w, h) == [Fflush(w, h) EXCEPT !.streams[h].open = FALSE]

\* fwrite / fprintf of the bytes d to the open stream h.  The library keeps
\* the bytes in its buffer, or transfers the buffer to the file when it is
\* full (spill): packets are up to BUFSIZ bytes long, so both happen.
Fwrite(w, h, d, spill) ==
  LET w1 == [w EXCEPT !.streams[h].pend = @ \o d]
  IN  IF spill THEN Fflush(w1, h) ELSE w1

\* fseek(h, -back, SEEK_END): flushes, then moves to back bytes before the
\* end of the file; fails when that lies before the start of the file.
FseekEnd(w, h, back) ==
  LET w1 == Fflush(w, h)
      size == Len(w1.inodes[w1.streams[h].ino])
  IN  IF size < back THEN [w |-> w1, ok |-> FALSE]
      ELSE [w |-> [w1 EXCEPT !.streams[h].pos = size - back], ok |-> TRUE]

\* openFile(name): fopen(name, "a+") creates the file when it is missing and
\* keeps its content when it exists; after fclose, fopen(name, "r+") opens
\* it for update at offset 0 without truncating it.
openFile(w, name) ==
  LET w1 == IF name \in DOMAIN w.dir THEN w
            ELSE [w EXCEPT !.inodes = Append(@, <<>>),
                           !.dir = (name :> (Len(w.inodes) + 1)) @@ @]
      file == [ino |-> w1.dir[name], pos |-> 0, pend |-> <<>>, open |-> TRUE,
               name |-> name]
  IN  [w |-> [w1 EXCEPT !.streams = Append(@, file)],
       fh |-> Len(w1.streams) + 1]

\* exit(): every stream that is still open is flushed and closed.
RECURSIVE ExitFlush(_, _)
ExitFlush(w, h) ==
  IF h > Len(w.streams) THEN w ELSE ExitFlush(Fclose(w, h), h + 1)

\* Lines 220-231 and 336-349: open the live catalog, write the declaration
\* and the empty root element, flush, and place the cursor before the
\* closing tag.
CreateCatalog(w) ==
  LET o == openFile(w, current_xml)
      w1 == Fflush(Fwrite(o.w, o.fh, XmlDecl \o CatalogOpen \o CatalogClose,
                          FALSE), o.fh)
      sk == FseekEnd(w1, o.fh, SEEK_BACK)
  IN  [w |-> sk.w, fh |-> o.fh, ok |-> sk.ok]

\* Lines 209-214 and 329-334: rename the live catalog to its archive path.
ArchiveCatalog(w, t) == Rename(w, current_xml, XmlArchivePath(t))

\* ------------------------------------------------------------------ state
VARIABLES
  pc,             \* "start", "recv" (blocked in read), "exited", "aborted"
  exitCode,       \* exit status of the process once pc = "exited"
  now,            \* the wall clock, in seconds
  dir, inodes, streams,   \* the file system and the stdio stream table
  devOpen,        \* the serial device fd is open
  fp, outxml,     \* FILE *fp, *outxml: indices into streams (0 is NULL)
  xml_check, xmlCount, totalFileSize, index,
  buf, rc,        \* the packet in the receive buffer and read()'s result
  nread,          \* number of read() calls made
  branch,         \* the branch of the loop that handled the last read()
  from,           \* xml_check when the last read() returned
  imgFrags,       \* the image fragments written since fp was last opened
  entries,        \* the fragments, each with its newline, that the XML
                  \* branch has handled since the last catalog start
  tornDown,       \* the teardown of lines 395-409 has been entered
  deasserted,     \* the teardown's ioctl(TIOCMBIC) has cleared RTS and DTR
  usedClosed,     \* the last step used a stream that was already fclosed
  io,             \* how the last step's file operations ended: "ok",
                  \* "short" (fwrite count # rc), "flush" (fflush failed),
                  \* "seek" (fseek failed)
  termSeen        \* an image terminator has been processed

vars ==
  <<pc, exitCode, now, dir, inodes, streams, devOpen, fp, outxml, xml_check,
    xmlCount, totalFileSize, index, buf, rc, nread, branch, from, imgFrags,
    entries, tornDown, deasserted, usedClosed, io, termSeen>>

World == [dir |-> dir, inodes |-> inodes, streams |-> streams]

SetWorld(w) ==
  /\ dir' = w.dir
  /\ inodes' = w.inodes
  /\ streams' = w.streams

\* time(&current_time): the clock never runs backwards.
Time == {t \in now..(now + 1) : t <= MaxClock}

\* What an earlier run of the program can have left in the data directory:
\* an image buffer holding part of an image ("old"), a live catalog holding
\* one entry and no closing tag.
StaleImage == <<111, 108, 100>>
StaleCatalog == XmlDecl \o CatalogOpen \o ROEIMAGE \o Newline

InitialDisks ==
  { [dir |-> << >>, inodes |-> << >>],
    [dir |-> (image_path :> 1), inodes |-> <<StaleImage>>],
    [dir |-> (current_xml :> 1), inodes |-> <<StaleCatalog>>],
    [dir |-> (image_path :> 1) @@ (current_xml :> 2),
     inodes |-> <<StaleImage, StaleCatalog>>] }

Init ==
  /\ pc = "start"
  /\ exitCode = 0
  /\ now = 0
  /\ \E d \in InitialDisks : dir = d.dir /\ inodes = d.inodes
  /\ streams = << >>
  /\ devOpen = TRUE
  /\ fp = 0
  /\ outxml = 0
  /\ xml_check = 0
  /\ xmlCount = 0
  /\ totalFileSize = 0
  /\ index = 0
  /\ buf = << >>
  /\ rc = 0
  /\ nread = 0
  /\ branch = "none"
  /\ from = 0
  /\ imgFrags = << >>
  /\ entries = << >>
  /\ tornDown = FALSE
  /\ deasserted = FALSE
  /\ usedClosed = FALSE
  /\ io = "ok"
  /\ termSeen = FALSE

\* Lines 203-231: open the image buffer, archive a catalog left at the live
\* path, create the fresh catalog.
Startup ==
  /\ pc = "start"
  /\ \E t \in Time : \E ub \in SprintfOutcomes(XmlArchivePath(t)) :
       LET o == openFile(World, image_path)
           found == Stat(o.w, current_xml)
           w1 == IF found THEN ArchiveCatalog(o.w, t) ELSE o.w
           c == CreateCatalog(w1)
       IN  IF found /\ ub = "abort"
           THEN /\ pc' = "aborted"
                /\ now' = t
                /\ SetWorld(o.w)
                /\ fp' = o.fh
                /\ UNCHANGED <<outxml, xmlCount, exitCode, io>>
           ELSE /\ now' = (IF found THEN t ELSE now)
                /\ SetWorld(IF c.ok THEN c.w ELSE ExitFlush(c.w, 1))
                /\ fp' = o.fh
                /\ outxml' = c.fh
                /\ xmlCount' = (IF found THEN 1 ELSE 0)
                /\ pc' = (IF c.ok THEN "recv" ELSE "exited")
                /\ io' = (IF c.ok THEN "ok" ELSE "seek")
                /\ \/ c.ok /\ UNCHANGED exitCode
                   \/ ~c.ok /\ exitCode' \in 0..1
  /\ branch' = "startup"
  /\ imgFrags' = << >>
  /\ UNCHANGED <<devOpen, xml_check, totalFileSize, index, buf, rc, nread,
                 from, entries, tornDown, deasserted, usedClosed,
                 termSeen>>

\* ---------------------------------------------------------------- packets
Pad(s, n) == s \o [i \in 1..(n - Len(s)) |-> 0]

\* What read() can deliver.  16-byte packets: the names "a", the image
\* buffer's own name, the live catalog's name, the empty name, and
\* "<ROEIMAGE>abcdef".  14-byte packets: 14 NULs and "<ROEIMAGE>abcd".
\* Other lengths: "<ROEIMAGE>e", "<ROEIMAGE!" and "im".
Packets ==
  { Pad(<<97>>, IMAGE_TERM_LEN),
    Pad(image_path.name, IMAGE_TERM_LEN),
    Pad(current_xml.name, IMAGE_TERM_LEN),
    Pad(<< >>, IMAGE_TERM_LEN),
    ROEIMAGE \o <<97, 98, 99, 100, 101, 102>>,
    Pad(<< >>, CATALOG_TERM_LEN),
    ROEIMAGE \o <<97, 98, 99, 100>>,
    ROEIMAGE \o <<101>>,
    <<60, 82, 79, 69, 73, 77, 65, 71, 69, 33>>,
    <<105, 109>> }

\* The if-chain with the two terminator lengths exchanged.
Classify_Swapped(n) ==
  IF n < 0 THEN "ReadError"
  ELSE IF n = 0 THEN "ReadZero"
  ELSE IF n = CATALOG_TERM_LEN THEN "ImageTerminator"
  ELSE IF n = IMAGE_TERM_LEN THEN "CatalogTerminator"
  ELSE "Data"

\* Lines 269-316: the if-chain on read()'s result.
Classify(n) ==
  IF n < 0 THEN "ReadError"
  ELSE IF n = 0 THEN "ReadZero"
  ELSE IF n = IMAGE_TERM_LEN THEN "ImageTerminator"
  ELSE IF n = CATALOG_TERM_LEN THEN "CatalogTerminator"
  ELSE "Data"

\* Lines 320-322: strncpy of the first bytes of buf, strncmp with the marker.
IsXmlHeader(p) == StrncmpEq(Strncpy(p, HEADER_LEN), ROEIMAGE, HEADER_LEN)

\* The sniff of lines 318-357 run in state 0 as well as in state 1.
TakesXmlBranch_SniffInState0(check, p) ==
  check = 2 \/ (check \in {0, 1} /\ IsXmlHeader(p))

\* Lines 318-358: whether a data packet takes the XML branch (xml_check is 2
\* once the sniff of lines 318-357 is done).
TakesXmlBranch(check, p) == check = 2 \/ (check = 1 /\ IsXmlHeader(p))

\* fwrite/fprintf on a stream that fclose has already freed is undefined:
\* the bytes are dropped with success reported, or the call reports a short
\* count, or the process dies in the allocator.
ClosedWriteOutcomes == {"dropped", "short", "abort"}

\* fprintf/fflush/fclose on such a stream: the calls fail unnoticed, or the
\* second free ends the process.
ClosedCloseOutcomes == {"ignored", "abort"}

\* The teardown without the flush and close of the streams that are still
\* open when main returns.
Teardown_NoExitFlush(w, h, ioctlOk) ==
  IF ioctlOk
  THEN [w |-> Fclose(w, h), code |-> 0, dev |-> FALSE, lines |-> TRUE]
  ELSE [w |-> w, code |-> (-1) % 256, dev |-> TRUE, lines |-> FALSE]

\* Lines 395-409: ioctl(TIOCMBIC); on failure return rc, else close(fd),
\* fclose(fp), return 0.  Returning from main flushes every open stream.
Teardown(w, h, ioctlOk) ==
  IF ioctlOk
  THEN [w |-> ExitFlush(Fclose(w, h), 1), code |-> 0, dev |-> FALSE,
        lines |-> TRUE]
  ELSE [w |-> ExitFlush(w, 1), code |-> (-1) % 256, dev |-> TRUE,
        lines |-> FALSE]

Exit(td) ==
  /\ pc' = "exited"
  /\ exitCode' = td.code
  /\ devOpen' = td.dev
  /\ tornDown' = TRUE
  /\ deasserted' = td.lines
  /\ SetWorld(td.w)

\* Lines 367-370 and 384-387: fflush fails with errno EIO or ENOSPC.
FlushErrnos == {5, 28}

\* Lines 369 and 386: return errno, without the teardown of lines 395-409.
ReturnErrno(w) ==
  /\ pc' = "exited"
  /\ exitCode' \in {e % 256 : e \in FlushErrnos}
  /\ SetWorld(ExitFlush(w, 1))
  /\ UNCHANGED <<devOpen, tornDown, deasserted>>

\* How the fwrite and fflush of a data packet can end.
IoOutcomes == {"ok", "short", "flush"}

\* The bytes a short fwrite has taken: all but the last one.
ShortWrite(p) == SubSeq(p, 1, Len(p) - 1)

Receiving == pc = "recv" /\ nread < MaxPackets

\* Lines 269-278: read() failed.
ReadError ==
  /\ Receiving
  /\ Classify(-1) = "ReadError"
  /\ \E errno \in {EINTR, EINTR + 1} : \E ioctlOk \in BOOLEAN :
       /\ branch' = (IF errno = EINTR THEN "Interrupted" ELSE "ReadError")
       /\ Exit(Teardown(World, fp, ioctlOk))
  /\ rc' = -1
  /\ buf' = << >>
  /\ nread' = nread + 1
  /\ from' = xml_check
  /\ usedClosed' = FALSE
  /\ io' = "ok"
  /\ UNCHANGED <<now, fp, outxml, xml_check, xmlCount, totalFileSize, index,
                 imgFrags, entries, termSeen>>

\* Lines 279-285: read() returned no data.
ReadZero ==
  /\ Receiving
  /\ Classify(0) = "ReadZero"
  /\ \E ioctlOk \in BOOLEAN : Exit(Teardown(World, fp, ioctlOk))
  /\ branch' = "ReadZero"
  /\ rc' = 0
  /\ buf' = << >>
  /\ nread' = nread + 1
  /\ from' = xml_check
  /\ usedClosed' = FALSE
  /\ io' = "ok"
  /\ UNCHANGED <<now, fp, outxml, xml_check, xmlCount, totalFileSize, index,
                 imgFrags, entries, termSeen>>

\* Lines 286-302: a 16-byte packet ends the image.
ImageTerminator ==
  /\ Receiving
  /\ \E p \in Packets :
       /\ Classify(Len(p)) = "ImageTerminator"
       /\ buf' = p
       /\ rc' = Len(p)
       /\ LET w1 == Fclose(Fflush(World, fp), fp)
              w2 == Rename(w1, image_path, ImageArchivePath(p))
              o == openFile(w2, image_path)
          IN  /\ SetWorld(o.w)
              /\ fp' = o.fh
  /\ xml_check' = 1
  /\ totalFileSize' = 0
  /\ index' = 0
  /\ branch' = "ImageTerminator"
  /\ nread' = nread + 1
  /\ from' = xml_check
  /\ imgFrags' = << >>
  /\ usedClosed' = FALSE
  /\ io' = "ok"
  /\ termSeen' = TRUE
  /\ UNCHANGED <<pc, exitCode, now, devOpen, outxml, xmlCount, entries,
                 tornDown, deasserted>>

\* Lines 303-315: a 14-byte packet ends the catalog.
CatalogTerminator ==
  /\ Receiving
  /\ \E p \in Packets :
       /\ Classify(Len(p)) = "CatalogTerminator"
       /\ buf' = p
       /\ rc' = Len(p)
  /\ \E uac \in ClosedCloseOutcomes :
       IF streams[outxml].open
       THEN /\ SetWorld(Fclose(Fflush(Fwrite(World, outxml, CatalogClose,
                                             FALSE), outxml), outxml))
            /\ pc' = "recv"
            /\ xml_check' = 0
            /\ totalFileSize' = 0
            /\ index' = 0
       ELSE IF uac = "abort"
       THEN /\ pc' = "aborted"
            /\ UNCHANGED <<dir, inodes, streams, xml_check, totalFileSize,
                           index>>
       ELSE /\ pc' = "recv"
            /\ xml_check' = 0
            /\ totalFileSize' = 0
            /\ index' = 0
            /\ UNCHANGED <<dir, inodes, streams>>
  /\ branch' = "CatalogTerminator"
  /\ nread' = nread + 1
  /\ from' = xml_check
  /\ usedClosed' = ~streams[outxml].open
  /\ io' = "ok"
  /\ UNCHANGED <<exitCode, now, devOpen, fp, outxml, xmlCount, imgFrags,
                 entries, tornDown, deasserted, termSeen>>

\* Lines 358-374 on the open stream h of world w: fwrite, fflush(fp),
\* fprintf("\n").  sofar is what the branch has handled before.
XmlWrite(w, h, p, sofar) ==
  \E fail \in IoOutcomes :
  \E spill \in (IF fail = "ok" THEN {"none", "data", "all"} ELSE {"none"}) :
  \E ioctlOk \in (IF fail = "short" THEN BOOLEAN ELSE {TRUE}) :
    /\ io' = fail
    /\ usedClosed' = FALSE
    /\ IF fail = "short"
       THEN /\ Exit(Teardown(Fwrite(w, h, ShortWrite(p), FALSE), fp,
                             ioctlOk))
            /\ entries' = sofar
            /\ UNCHANGED <<totalFileSize, index>>
       ELSE IF fail = "flush"
       THEN /\ ReturnErrno(Fwrite(w, h, p, FALSE))
            /\ entries' = sofar
            /\ UNCHANGED <<totalFileSize, index>>
       ELSE LET w1 == Fwrite(w, h, p, spill # "none")
                w2 == Fflush(w1, fp)
                w3 == Fwrite(w2, h, Newline, spill = "all")
            IN  /\ SetWorld(w3)
                /\ entries' = sofar \o p \o Newline
                /\ totalFileSize' = totalFileSize + Len(p)
                /\ index' = index + 1
                /\ UNCHANGED <<pc, exitCode, devOpen, tornDown,
                               deasserted>>

\* Lines 358-374 when outxml has already been fclosed.
XmlWriteClosed(w, p, sofar) ==
  \E uac \in ClosedWriteOutcomes :
  \E ioctlOk \in (IF uac = "short" THEN BOOLEAN ELSE {TRUE}) :
    /\ usedClosed' = TRUE
    /\ io' = (IF uac = "short" THEN "short" ELSE "ok")
    /\ IF uac = "dropped"
       THEN /\ SetWorld(Fflush(w, fp))
            /\ entries' = sofar \o p \o Newline
            /\ totalFileSize' = totalFileSize + Len(p)
            /\ index' = index + 1
            /\ UNCHANGED <<pc, exitCode, devOpen, tornDown,
                           deasserted>>
       ELSE IF uac = "short"
       THEN /\ Exit(Teardown(w, fp, ioctlOk))
            /\ entries' = sofar
            /\ UNCHANGED <<totalFileSize, index>>
       ELSE /\ pc' = "aborted"
            /\ SetWorld(w)
            /\ entries' = sofar
            /\ UNCHANGED <<exitCode, devOpen, tornDown, deasserted,
                           totalFileSize, index>>

\* Lines 316-374: a data packet that goes to the catalog.  In state 1 the
\* packet starts a catalog; when a catalog was already started or recovered
\* the live one is archived and a fresh one created first.
XmlPacket ==
  /\ Receiving
  /\ \E p \in Packets :
       /\ Classify(Len(p)) = "Data"
       /\ TakesXmlBranch(xml_check, p)
       /\ buf' = p
       /\ rc' = Len(p)
       /\ nread' = nread + 1
       /\ from' = xml_check
       /\ UNCHANGED <<imgFrags, termSeen>>
       /\ LET starts == xml_check = 1
              rearchive == starts /\ xmlCount > 0
          IN  \E t \in (IF rearchive THEN Time ELSE {now}) :
              \E ub \in (IF rearchive THEN SprintfOutcomes(XmlArchivePath(t))
                         ELSE {"benign"}) :
                LET c == IF rearchive
                         THEN CreateCatalog(ArchiveCatalog(World, t))
                         ELSE [w |-> World, fh |-> outxml, ok |-> TRUE]
                    isOpen == c.w.streams[c.fh].open
                    sofar == IF starts THEN << >> ELSE entries
                IN  /\ now' = t
                    /\ IF ub = "abort"
                       THEN /\ pc' = "aborted"
                            /\ branch' = "CatalogStart"
                            /\ usedClosed' = FALSE
                            /\ io' = "ok"
                            /\ UNCHANGED <<exitCode, dir, inodes, streams,
                                           devOpen, fp, outxml, xml_check,
                                           xmlCount, totalFileSize, index,
                                           entries, tornDown,
                                           deasserted>>
                       ELSE IF ~c.ok
                       THEN /\ pc' = "exited"
                            /\ exitCode' \in 0..1
                            /\ branch' = "CatalogStart"
                            /\ usedClosed' = FALSE
                            /\ io' = "seek"
                            /\ SetWorld(ExitFlush(c.w, 1))
                            /\ outxml' = c.fh
                            /\ UNCHANGED <<devOpen, fp, xml_check, xmlCount,
                                           totalFileSize, index, entries,
                                           tornDown, deasserted>>
                       ELSE
                         /\ outxml' = c.fh
                         /\ xmlCount' = (IF starts THEN 1 ELSE xmlCount)
                         /\ xml_check' = 2
                         /\ branch' = "CatalogFragment"
                         /\ UNCHANGED fp
                         /\ IF isOpen THEN XmlWrite(c.w, c.fh, p, sofar)
                            ELSE XmlWriteClosed(c.w, p, sofar)

\* Lines 316-357 and 375-391: a data packet that goes to the image buffer.
ImagePacket ==
  /\ Receiving
  /\ \E p \in Packets :
       /\ Classify(Len(p)) = "Data"
       /\ ~TakesXmlBranch(xml_check, p)
       /\ buf' = p
       /\ rc' = Len(p)
       /\ \E fail \in IoOutcomes :
          \E ioctlOk \in (IF fail = "short" THEN BOOLEAN ELSE {TRUE}) :
            /\ io' = fail
            /\ IF fail = "short"
               THEN /\ Exit(Teardown(Fwrite(World, fp, ShortWrite(p), FALSE),
                                     fp, ioctlOk))
                    /\ UNCHANGED <<imgFrags, totalFileSize, index>>
               ELSE IF fail = "flush"
               THEN /\ ReturnErrno(Fwrite(World, fp, p, FALSE))
                    /\ UNCHANGED <<imgFrags, totalFileSize, index>>
               ELSE /\ SetWorld(Fflush(Fwrite(World, fp, p, FALSE), fp))
                    /\ imgFrags' = imgFrags \o p
                    /\ totalFileSize' = totalFileSize + Len(p)
                    /\ index' = index + 1
                    /\ UNCHANGED <<pc, exitCode, devOpen, tornDown,
                                   deasserted>>
  /\ xml_check' = 0
  /\ branch' = "ImageFragment"
  /\ nread' = nread + 1
  /\ from' = xml_check
  /\ usedClosed' = FALSE
  /\ UNCHANGED <<now, fp, outxml, xmlCount, entries, termSeen>>

Next ==
  \/ Startup
  \/ ReadError
  \/ ReadZero
  \/ ImageTerminator
  \/ CatalogTerminator
  \/ XmlPacket
  \/ ImagePacket

Spec == Init /\ [][Next]_vars

\* ------------------------------------------------------------- properties
\* The content file i has once every open stream on it is flushed.
Logical(w, i) == ExitFlush(w, 1).inodes[i]

\* The offset at which the next byte written to stream h will be stored.
Cursor(w, h) == w.streams[h].pos + Len(w.streams[h].pend)

\* Stream h is open and the bytes just before its cursor are d.
JustWrote(w, h, d) ==
  /\ w.streams[h].open
  /\ Cursor(w, h) >= Len(d)
  /\ SubSeq(Logical(w, w.streams[h].ino), Cursor(w, h) - Len(d) + 1,
            Cursor(w, h)) = d

\* A step of the loop that received a packet and whose fwrite and fflush
\* calls succeeded.
Received == pc = "recv" /\ nread' = nread + 1 /\ rc' > 0 /\ io' = "ok"

CatalogHeader == XmlDecl \o CatalogOpen

\* C1: in every state and for every payload a 16-byte packet takes the
\* image-terminator branch and a 14-byte packet the catalog-terminator
\* branch, and the step stores no payload byte: every file keeps its
\* content, but for the closing tag the catalog terminator writes at the
\* catalog's cursor, and a file the step creates is empty.
C1_TerminatorByLength ==
  [][(Received /\ rc' \in {IMAGE_TERM_LEN, CATALOG_TERM_LEN}) =>
       /\ branch' = (IF rc' = IMAGE_TERM_LEN THEN "ImageTerminator"
                     ELSE "CatalogTerminator")
       /\ \A i \in 1..Len(inodes') :
            IF i > Len(inodes) THEN inodes'[i] = << >>
            ELSE \/ Logical(World', i) = Logical(World, i)
                 \/ /\ rc' = CATALOG_TERM_LEN
                    /\ streams[outxml].open
                    /\ i = streams[outxml].ino
                    /\ Logical(World', i) =
                         WriteAt(Logical(World, i), Cursor(World, outxml),
                                 CatalogClose)]_vars

\* C1 witness: a 16-byte packet that begins with <ROEIMAGE> arrived while
\* the loop was writing a catalog, and was handled as an image terminator.
C1_Witness ==
  /\ branch = "ImageTerminator"
  /\ from = 2
  /\ IsXmlHeader(buf)
  /\ pc = "recv"

\* C2: in state 1 a data packet that begins with <ROEIMAGE> is written to
\* the catalog (with its newline) and the state becomes 2; any other data
\* packet is written to the image buffer and the state becomes 0.
C2_SniffDecides ==
  [][(Received /\ xml_check = 1 /\ Classify(rc') = "Data") =>
       IF IsXmlHeader(buf')
       THEN xml_check' = 2 /\ JustWrote(World', outxml', buf' \o Newline)
       ELSE xml_check' = 0 /\ JustWrote(World', fp', buf')]_vars

\* C3: in state 0 every data packet is written to the image buffer and the
\* catalog stream is left as it was; in state 2 every data packet is written
\* to the catalog and the image buffer stream is left as it was.
C3_CommittedNoSniff ==
  [][(Received /\ Classify(rc') = "Data") =>
       /\ xml_check = 0 =>
            /\ JustWrote(World', fp', buf')
            /\ outxml' = outxml
            /\ streams'[outxml] = streams[outxml]
            /\ inodes'[streams[outxml].ino] = inodes[streams[outxml].ino]
       /\ xml_check = 2 =>
            /\ JustWrote(World', outxml', buf' \o Newline)
            /\ fp' = fp
            /\ streams'[fp] = streams[fp]
            /\ inodes'[streams[fp].ino] = inodes[streams[fp].ino]]_vars

\* C4: when an image terminator naming N is processed, the file archived
\* under N holds exactly the image fragments written since the image buffer
\* was last opened, in arrival order.
C4_ArchivedImageIsFragments ==
  [][(Received /\ branch' = "ImageTerminator" /\ CString(buf') # << >>) =>
       /\ ImageArchivePath(buf') \in DOMAIN dir'
       /\ inodes'[dir'[ImageArchivePath(buf')]] = imgFrags]_vars

\* C5: right after an image terminator naming N, file N exists, the image
\* buffer path exists, is empty and has the open handle fp on it, and
\* totalFileSize and index are 0.
C5_AfterImageTerminator ==
  [][(Received /\ branch' = "ImageTerminator") =>
       /\ ImageArchivePath(buf') \in DOMAIN dir'
       /\ image_path \in DOMAIN dir'
       /\ inodes'[dir'[image_path]] = << >>
       /\ streams'[fp'].open
       /\ streams'[fp'].ino = dir'[image_path]
       /\ totalFileSize' = 0
       /\ index' = 0]_vars

\* C6: while the catalog is open and the loop waits in read(), the catalog
\* file on disk is the declaration, the opening tag, the entries written so
\* far and the closing tag.
C6_CatalogWellFormedAtRest ==
  (pc = "recv" /\ streams[outxml].open) =>
    inodes[streams[outxml].ino] = CatalogHeader \o entries \o CatalogClose

\* C7: when a catalog terminator ends a catalog round (state 2), the catalog
\* file is the declaration, the opening tag, the round's fragments each with
\* its newline, and one closing tag, and the catalog handle is closed.
C7_CatalogRound ==
  [][(Received /\ xml_check = 2 /\ branch' = "CatalogTerminator") =>
       /\ ~streams'[outxml].open
       /\ inodes'[streams[outxml].ino] =
            CatalogHeader \o entries \o CatalogClose]_vars

\* C8: a catalog terminator renames nothing and leaves the closed catalog at
\* the live path; a catalog start with xmlCount > 0 renames the live catalog
\* to the timestamped archive path, creates a fresh catalog at the live path
\* and writes the fragment to the fresh one.
C8_ArchiveAtCatalogStart ==
  [][/\ (Received /\ branch' = "CatalogTerminator") =>
          /\ dir' = dir
          /\ ~streams'[outxml].open
     /\ (Received /\ xml_check = 1 /\ xmlCount > 0 /\ Classify(rc') = "Data"
           /\ IsXmlHeader(buf')) =>
          /\ XmlArchivePath(now') \in DOMAIN dir'
          /\ dir'[XmlArchivePath(now')] = dir[current_xml]
          /\ current_xml \in DOMAIN dir'
          /\ dir'[current_xml] > Len(inodes)
          /\ streams'[outxml'].ino = dir'[current_xml]
          /\ JustWrote(World', outxml', buf' \o Newline)
          /\ Logical(World', dir'[current_xml]) =
               CatalogHeader \o buf' \o Newline]_vars

\* C9: at startup a catalog found at the live path is renamed, content
\* kept, to the timestamped archive path, and the fresh catalog at the live
\* path holds the declaration and the empty root element only.
C9_StartupRecovery ==
  [][(pc = "start" /\ current_xml \in DOMAIN dir /\ pc' # "start") =>
       /\ XmlArchivePath(now') \in DOMAIN dir'
       /\ dir'[XmlArchivePath(now')] = dir[current_xml]
       /\ inodes'[dir[current_xml]] = inodes[dir[current_xml]]
       /\ current_xml \in DOMAIN dir'
       /\ dir'[current_xml] # dir[current_xml]
       /\ inodes'[dir'[current_xml]] = CatalogHeader \o CatalogClose]_vars

\* C10: a read() that returns 0 ends the loop and the process exits with a
\* non-zero status.
C10_ZeroReadFails ==
  [][(pc = "recv" /\ nread' = nread + 1 /\ rc' = 0) =>
       (pc' = "exited" /\ exitCode' # 0)]_vars

\* C11: a data packet whose fwrite stores fewer bytes than requested, or
\* whose fflush fails, ends the loop and the process exits with a non-zero
\* status, in the image branch and in the catalog branch.
C11_FatalIoExitsNonZero ==
  [][(pc = "recv" /\ io' \in {"short", "flush"} /\ ~usedClosed') =>
       (pc' = "exited" /\ exitCode' # 0)]_vars

\* C12 as stated: when read() fails with EINTR, in any state, the loop ends,
\* every stream that is open (the image buffer and, if open, the catalog) is
\* flushed and closed before the process exits, and the exit status is 0.
C12_InterruptExitsZero ==
  [][(pc = "recv" /\ branch' = "Interrupted") =>
       /\ pc' = "exited"
       /\ \A h \in 1..Len(streams') :
            ~streams'[h].open /\ streams'[h].pend = << >>
       /\ \A i \in 1..Len(inodes) : inodes'[i] = Logical(World, i)
       /\ exitCode' = 0]_vars

\* C12 amended: when read() fails with EINTR, in any state, the loop ends
\* and every open stream is flushed and closed before the process exits;
\* the exit status is 0 exactly when the teardown's ioctl(TIOCMBIC) has
\* deasserted the control lines, and non-zero when that ioctl fails.
C12_InterruptTeardown ==
  [][(pc = "recv" /\ branch' = "Interrupted") =>
       /\ pc' = "exited"
       /\ \A h \in 1..Len(streams') :
            ~streams'[h].open /\ streams'[h].pend = << >>
       /\ \A i \in 1..Len(inodes) : inodes'[i] = Logical(World, i)
       /\ (exitCode' = 0) <=> deasserted']_vars

\* C12 witness: the interrupt arrived while a catalog was being written;
\* the process has exited with status 0 and the fragment handled before the
\* interrupt is in the catalog file.
C12_Witness ==
  /\ pc = "exited"
  /\ branch = "Interrupted"
  /\ from = 2
  /\ exitCode = 0
  /\ entries # << >>
  /\ inodes[streams[outxml].ino] = CatalogHeader \o entries

\* C13: when a terminator is received right after another terminator (16
\* after 16, 14 after 14, or one of each), the second is processed without
\* error: the loop goes on, no stream is written or closed while it is
\* already closed, and no byte has been accumulated for the second one.
C13_BackToBackTerminators ==
  [][(/\ Received
      /\ branch \in {"ImageTerminator", "CatalogTerminator"}
      /\ branch' \in {"ImageTerminator", "CatalogTerminator"}) =>
       /\ pc' = "recv"
       /\ ~usedClosed'
       /\ totalFileSize = 0
       /\ imgFrags = << >>]_vars

\* C14: whenever the loop is about to call read(), no open stream holds
\* written-but-unflushed bytes, so every file on disk has the content that
\* the fragments written so far give it.
C14_FlushedBeforeReceive ==
  pc = "recv" =>
    \A h \in 1..Len(streams) : streams[h].open => streams[h].pend = << >>

\* The streams that are open on the file name.
OpenHandles(name) ==
  {h \in 1..Len(streams) : streams[h].open /\ streams[h].name = name}

\* C15: in every state at most one stream is open on the image buffer and
\* at most one on the live catalog.
C15_OneHandlePerKind ==
  /\ Cardinality(OpenHandles(image_path)) <= 1
  /\ Cardinality(OpenHandles(current_xml)) <= 1

\* A path of the archive: any path but the two staging paths.
IsArchive(p) == p \notin {image_path, current_xml}

\* C16: a file that is in the archive stays there: no step of the loop
\* replaces the file at an archival path or changes its content.
C16_ArchiveNeverChanged ==
  [][\A p \in DOMAIN dir :
       IsArchive(p) =>
         /\ p \in DOMAIN dir'
         /\ dir'[p] = dir[p]
         /\ inodes'[dir[p]] = inodes[dir[p]]]_vars

\* C17: a packet of positive length whose file operations succeed is
\* processed to completion and the loop is back at read(), whatever the
\* packet's length or content.
C17_LoopGoesOn ==
  [][Received => pc' = "recv"]_vars

\* C18: every way of leaving the receive loop goes through the teardown of
\* lines 395-409 before the process exits, and a teardown whose ioctl
\* succeeds leaves the control lines deasserted, the device closed and the
\* image buffer stream closed.
C18_ExitThroughTeardown ==
  [][(pc = "recv" /\ pc' = "exited") =>
       /\ tornDown'
       /\ deasserted' => (~devOpen' /\ ~streams'[fp'].open)]_vars

C20_CatalogHandleOpen == ~usedClosed

====
